---- MODULE Spec2Model ----
(***************************************************************************)
(* LivePlayer (video-player/src/LivePlayer.js): the view state of the      *)
(* component, its event handlers, the continuations of its fetch calls,    *)
(* its 3-second clip timers and its HLS player, as a state machine.        *)
(* Times are fixed-point numbers in units of 1/VideoWidth second, so that  *)
(* duration * clickX / width is exact.                                     *)
(***************************************************************************)
EXTENDS Integers, Sequences, FiniteSets, TLC

\* Bounds of the model
MaxInFlight == 2        \* requests of one kind in flight at the same time
MaxMounts == 2          \* mounts of the component in one browser
MaxTimers == 2          \* clip timers pending or still to be set

\* Program constants
VideoWidth == 640       \* style width of the <video> element
ClipSeconds == 30       \* Math.max(0, clickedTime - 30)

Undefined == "undefined"
Filenames == {"a.mp4", "b.mp4"}
UserIds == {"u1", "u2"}                 \* values crypto.randomUUID() can return
FiniteDurations == {120}                 \* video.duration, seconds
CurrentTimes == {0, 10}                  \* video.currentTime, seconds
ClickXs == {160, 640}                    \* e.clientX - rect.left
\* the video element at a click: <<duration is finite, duration, clickX,
\* currentTime>>; a finite duration ignores currentTime and conversely
ClickInputs ==
    {<<TRUE, d, x, 0>> : d \in FiniteDurations, x \in ClickXs}
    \cup {<<FALSE, 0, 0, t>> : t \in CurrentTimes}

\* JSON values of response bodies
JUndef == [t |-> "undefined", v |-> <<>>]
JArray(s) == [t |-> "array", v |-> s]

VideoLists == {JArray(<<"a.mp4">>), JArray(<<"a.mp4", "b.mp4">>)}
ClipLists == {JArray(<<"clip1">>)}

NoMessage == [text |-> "", from |-> 0, to |-> 0]
Message(s) == [text |-> s, from |-> 0, to |-> 0]

VARIABLES
    mounted,        \* the component is mounted
    instance,       \* number of mounts so far
    localStorage,   \* localStorage["anonUserId"], "" when absent
    storageWorks,   \* localStorage does not throw
    userId,         \* useState(() => ...) of this mount
    prevUserId,     \* userId of the previous mount, "" when none
    status, clipping, clipMessage,
    videos, currentVideo, uploading,
    heartCount, dislikeCount, clips,
    hlsSupported,   \* Hls.isSupported()
    hlsRef,         \* "null", or the state of the instance in hlsRef.current
    hlsLeaked,      \* undestroyed instances no longer held by hlsRef
    hlsCall,        \* last call made on the instance in hlsRef
    net,            \* per kind, the requests in flight in the order sent
    timers,         \* pending setTimeout callbacks of this mount
    orphanTimers,   \* pending setTimeout callbacks of unmounted instances
    streaming,      \* backend: the video being streamed
    alertText,      \* alert() shown by the last step, "" when none
    e,              \* the last click event on the video
    lateSetters,    \* a state setter was called after unmount
    lastGood,       \* per key: the last response received that was applied
    latestSent      \* per key: the response to the most recently sent request

view == <<status, clipping, clipMessage, videos, currentVideo, uploading,
          heartCount, dislikeCount, clips>>
player == <<hlsRef, hlsLeaked, hlsCall>>
browser == <<localStorage, storageWorks, hlsSupported>>
ident == <<userId, prevUserId>>
ghost == <<lastGood, latestSent>>
vars == <<mounted, instance, localStorage, storageWorks, userId, prevUserId,
          status, clipping, clipMessage, videos, currentVideo, uploading,
          heartCount, dislikeCount, clips, hlsSupported, hlsRef, hlsLeaked,
          hlsCall, net, timers, orphanTimers, streaming, alertText, e,
          lateSetters, lastGood, latestSent>>

----------------------------------------------------------------------------
\* Requests in flight

Kinds == {"videos", "clips", "upload", "start_stream", "clip", "heart", "dislike"}

Request ==
    [file |-> "", user |-> "", st |-> 0, en |-> 0, phase |-> "sent",
     ok |-> FALSE, bvideos |-> JUndef, bcurrent |-> Undefined,
     orphan |-> FALSE, chain |-> "", latest |-> TRUE]

Remove(s, i) == SubSeq(s, 1, i - 1) \o SubSeq(s, i + 1, Len(s))

CanSend(k) == Len(net[k]) < MaxInFlight

\* the queue of kind k once r has been sent: r is now the latest of its kind
Sending(q, r) ==
    Append([j \in 1..Len(q) |-> [q[j] EXCEPT !.latest = (q[j].orphan # r.orphan)
                                                       /\ q[j].latest]], r)

Send(k, r) == net' = [net EXCEPT ![k] = Sending(net[k], r)]
Take(k, i) == net' = [net EXCEPT ![k] = Remove(net[k], i)]
\* the response to net[k][i] arrives and its continuation sends r of kind k2
TakeAndSend(k, i, k2, r) ==
    net' = [net EXCEPT ![k] = Remove(net[k], i), ![k2] = Sending(net[k2], r)]

InFlight(k) == {i \in 1..Len(net[k]) : ~net[k][i].orphan}

\* the requests n once the instance that sent them has unmounted
Orphaned(n) ==
    [k \in Kinds |-> [j \in 1..Len(n[k]) |-> [n[k][j] EXCEPT !.orphan = TRUE]]]

Keys == {"videos", "clips", "heart", "dislike", "currentVideo"}

\* what a response carried: a count (has, n), a list, a video identifier
NoResult == [st |-> "none", has |-> FALSE, n |-> 0, list |-> JUndef, cur |-> ""]
Pending == NoResult
Failed == NoResult
Count(has, n) == [NoResult EXCEPT !.st = "applied", !.has = has, !.n = n]
List(l, c) == [NoResult EXCEPT !.st = "applied", !.list = l, !.cur = c]

\* ghost: a request of key k is sent by the mounted instance
NoteSent(ls, k, orphan) == IF orphan THEN ls ELSE [ls EXCEPT ![k] = Pending]

\* ghost: the response res to request r of key k; it sets the keys ks
NoteLatest(r, k, res) ==
    IF r.latest /\ ~r.orphan THEN [latestSent EXCEPT ![k] = res] ELSE latestSent
NoteGood(r, ks, res) ==
    IF res.st = "applied" /\ ~r.orphan
    THEN [x \in Keys |-> IF x \in ks THEN res ELSE lastGood[x]]
    ELSE lastGood

Late(orphan, calledSetter) ==
    lateSetters' = (lateSetters \/ (orphan /\ calledSetter))

NoClick == [ctrl |-> FALSE, alt |-> FALSE, meta |-> FALSE, prevented |-> FALSE]

----------------------------------------------------------------------------
\* HLS player

Alive(ref) == ref \in {"loading", "ready"}

\* a destroy() that leaves the instance as it is
destroy_nothing(ref) == ref

\* hls.destroy()
destroy(ref) == IF Alive(ref) THEN "destroyed" ELSE ref

\* an initPlayer that creates no player
initPlayerRef_keep(ref) == ref

\* initPlayer: the instance in hlsRef is destroyed, a new one is created
initPlayerRef(ref) == IF hlsSupported THEN "loading" ELSE ref
initPlayerLeaked(ref, leaked) ==
    IF hlsSupported /\ Alive(destroy(ref)) THEN leaked + 1 ELSE leaked

\* a cleanup that leaves the player alone
cleanup_nothing(ref) == ref

\* cleanup of the effect
cleanup(ref) == IF ref # "null" THEN destroy(ref) ELSE ref

\* the effect with dependency currentVideo: cleanup, then initPlayer
RunEffect(changed) ==
    IF changed
    THEN /\ hlsRef' = initPlayerRef(cleanup(hlsRef))
         /\ hlsLeaked' = initPlayerLeaked(cleanup(hlsRef), hlsLeaked)
         /\ hlsCall' = IF hlsSupported THEN "attachMedia" ELSE hlsCall
    ELSE UNCHANGED player

----------------------------------------------------------------------------
\* userId: useState initialiser

\* the identifier this mount uses
userIdInit(stored, generated, random, works) ==
    IF works THEN (IF stored # "" THEN stored ELSE generated) ELSE random

\* localStorage when the generated identifier is not stored
userIdStore_notStored(stored, generated, works) == stored

\* localStorage after the initialiser
userIdStore(stored, generated, works) ==
    IF works /\ stored = "" THEN generated ELSE stored

----------------------------------------------------------------------------
\* Clip range

\* the earlier test, kept as a comment in the source: Ctrl is required
isModifierClick_ctrlFirst(ctrl, alt, meta) == ctrl /\ (alt \/ meta)

isModifierClick(ctrl, alt, meta) == (meta \/ ctrl) /\ alt

\* clickedTime, in 1/VideoWidth seconds
clickedTime(finite, duration, clickX, currentTime) ==
    IF finite THEN duration * clickX ELSE currentTime * VideoWidth

Max(a, b) == IF a >= b THEN a ELSE b

\* the start time without the clamp at 0
clipStartTime_unclamped(T) == T - ClipSeconds * VideoWidth

clipStartTime(T) == Max(0, T - ClipSeconds * VideoWidth)
clipEndTime(T) == T

Floor(x) == x \div VideoWidth

----------------------------------------------------------------------------
InitialNet ==
    [k \in Kinds |-> IF k \in {"videos", "clips"} THEN <<Request>> ELSE <<>>]
InitialSent ==
    [k \in Keys |-> IF k \in {"videos", "clips"} THEN Pending ELSE NoResult]

\* the state after the first mount in a browser where localStorage works or
\* not (W), Hls is supported or not (H), and the generated identifier is in G
InitEnv(W, H, G) ==
    /\ mounted = TRUE
    /\ instance = 1
    /\ storageWorks \in W
    /\ hlsSupported \in H
    /\ \E generated \in G, random \in G :
         /\ userId = userIdInit("", generated, random, storageWorks)
         /\ localStorage = userIdStore("", generated, storageWorks)
    /\ prevUserId = ""
    /\ status = "Initializing..."
    /\ clipping = FALSE
    /\ clipMessage = NoMessage
    /\ videos = JArray(<<>>)
    /\ currentVideo = ""
    /\ uploading = FALSE
    /\ heartCount = 0
    /\ dislikeCount = 0
    /\ clips = JArray(<<>>)
    /\ hlsRef = initPlayerRef("null")
    /\ hlsLeaked = 0
    /\ hlsCall = IF hlsSupported THEN "attachMedia" ELSE "none"
    /\ net = InitialNet
    /\ timers = 0
    /\ orphanTimers = 0
    /\ streaming = "a.mp4"
    /\ alertText = ""
    /\ e = NoClick
    /\ lateSetters = FALSE
    /\ lastGood = [k \in Keys |-> NoResult]
    /\ latestSent = InitialSent

Init == InitEnv(BOOLEAN, BOOLEAN, UserIds)

----------------------------------------------------------------------------
\* Clips by modifier-click

ClipsPending == timers + orphanTimers + Len(net["clip"])

\* createClip up to the await of fetch
createClip(start, end) ==
    /\ clipping' = TRUE
    /\ clipMessage' = [text |-> "Creating clip", from |-> Floor(start),
                       to |-> Floor(end)]
    /\ Send("clip", [Request EXCEPT !.st = start, !.en = end])

handleVideoClick(ctrl, alt, meta, finite, duration, clickX, currentTime) ==
    /\ mounted
    /\ alertText' = ""
    /\ e' = [ctrl |-> ctrl, alt |-> alt, meta |-> meta,
             prevented |-> isModifierClick(ctrl, alt, meta)]
    /\ IF ~isModifierClick(ctrl, alt, meta)
       THEN UNCHANGED <<clipping, clipMessage, net>>
       ELSE /\ CanSend("clip")
            /\ ClipsPending < MaxTimers
            /\ LET T == clickedTime(finite, duration, clickX, currentTime)
               IN createClip(clipStartTime(T), clipEndTime(T))
    /\ UNCHANGED <<mounted, instance, browser, ident, status, videos,
                   currentVideo, uploading, heartCount, dislikeCount, clips,
                   player, timers, orphanTimers, streaming, lateSetters, ghost>>

\* createClip after the await: the response, or the rejection, of /clip
createClip_resume(i, outcome) ==
    /\ i \in 1..Len(net["clip"])
    /\ Take("clip", i)
    /\ alertText' = ""
    /\ IF net["clip"][i].orphan
       THEN /\ orphanTimers' = orphanTimers + 1
            /\ UNCHANGED <<clipMessage, timers>>
       ELSE /\ clipMessage' = IF outcome = "ok"
                              THEN Message("Clip downloaded successfully!")
                              ELSE Message("Failed to create clip. Please try again.")
            /\ timers' = timers + 1
            /\ UNCHANGED orphanTimers
    /\ Late(net["clip"][i].orphan, TRUE)
    /\ UNCHANGED <<mounted, instance, browser, ident, status, clipping, videos,
                   currentVideo, uploading, heartCount, dislikeCount, clips,
                   player, streaming, e, ghost>>

\* the callback of setTimeout(..., 3000)
clipTimer ==
    /\ timers > 0
    /\ timers' = timers - 1
    /\ clipping' = FALSE
    /\ clipMessage' = NoMessage
    /\ alertText' = ""
    /\ UNCHANGED <<mounted, instance, browser, ident, status, videos,
                   currentVideo, uploading, heartCount, dislikeCount, clips,
                   player, net, orphanTimers, streaming, e, lateSetters, ghost>>

\* the same callback, set by an instance that has unmounted since
clipTimerUnmounted ==
    /\ orphanTimers > 0
    /\ orphanTimers' = orphanTimers - 1
    /\ Late(TRUE, TRUE)
    /\ alertText' = ""
    /\ UNCHANGED <<mounted, instance, browser, ident, view, player, net,
                   timers, streaming, e, ghost>>

----------------------------------------------------------------------------
\* Mount and unmount

\* unmount: the cleanup of the effect runs; nothing else is cancelled
Unmount ==
    /\ mounted
    /\ mounted' = FALSE
    /\ hlsRef' = cleanup(hlsRef)
    /\ hlsCall' = IF hlsRef # "null" THEN "destroy" ELSE hlsCall
    /\ net' = Orphaned(net)
    /\ orphanTimers' = orphanTimers + timers
    /\ timers' = 0
    /\ alertText' = ""
    /\ UNCHANGED <<instance, browser, ident, view, hlsLeaked, streaming, e,
                   lateSetters, ghost>>

\* a later mount in the same browser: useState initialisers, then the effects
Mount(generated, random) ==
    /\ ~mounted
    /\ instance < MaxMounts
    /\ CanSend("videos")
    /\ CanSend("clips")
    /\ mounted' = TRUE
    /\ instance' = instance + 1
    /\ prevUserId' = userId
    /\ userId' = userIdInit(localStorage, generated, random, storageWorks)
    /\ localStorage' = userIdStore(localStorage, generated, storageWorks)
    /\ status' = "Initializing..."
    /\ clipping' = FALSE
    /\ clipMessage' = NoMessage
    /\ videos' = JArray(<<>>)
    /\ currentVideo' = ""
    /\ uploading' = FALSE
    /\ heartCount' = 0
    /\ dislikeCount' = 0
    /\ clips' = JArray(<<>>)
    /\ hlsRef' = initPlayerRef("null")
    /\ hlsLeaked' = IF Alive(hlsRef) THEN hlsLeaked + 1 ELSE hlsLeaked
    /\ hlsCall' = IF hlsSupported THEN "attachMedia" ELSE "none"
    /\ net' = [net EXCEPT !["videos"] = Sending(@, Request),
                          !["clips"] = Sending(@, Request)]
    /\ lastGood' = [k \in Keys |-> NoResult]
    /\ latestSent' = InitialSent
    /\ alertText' = ""
    /\ e' = NoClick
    /\ UNCHANGED <<storageWorks, hlsSupported, timers, orphanTimers,
                   streaming, lateSetters>>

----------------------------------------------------------------------------
\* Video list

\* the backend handles GET /videos
fetchVideos_serve(i, list, hasFields) ==
    /\ i \in 1..Len(net["videos"])
    /\ net["videos"][i].phase = "sent"
    /\ net' = [net EXCEPT !["videos"][i].phase = "served",
                          !["videos"][i].bvideos = IF hasFields THEN list ELSE JUndef,
                          !["videos"][i].bcurrent = IF hasFields THEN streaming
                                                    ELSE Undefined]
    /\ alertText' = ""
    /\ UNCHANGED <<mounted, instance, browser, ident, view, player, timers,
                   orphanTimers, streaming, e, lateSetters, ghost>>

\* the render after setVideos(list): videos.map(...) throws unless list is
\* an array
renders(list) == list.t = "array"

\* fetchVideos after the awaits; with chain = "upload" the rest of
\* handleUpload. When the new videos state cannot be rendered, the render
\* throws and React unmounts the component: the effect cleanup runs, nothing
\* else is cancelled.
fetchVideos_resume(i, outcome) ==
    /\ i \in 1..Len(net["videos"])
    /\ outcome \in {"json", "rejected"}
    /\ outcome = "json" => net["videos"][i].phase = "served"
    /\ LET r == net["videos"][i]
           res == IF outcome = "json" THEN List(r.bvideos, r.bcurrent) ELSE Failed
           applied == outcome = "json" /\ ~r.orphan
           rest == [net EXCEPT !["videos"] = Remove(net["videos"], i)]
       IN /\ alertText' = IF r.chain = "upload" THEN "Upload successful!" ELSE ""
          /\ IF applied
             THEN /\ videos' = r.bvideos
                  /\ currentVideo' = r.bcurrent
             ELSE UNCHANGED <<videos, currentVideo>>
          /\ uploading' = IF ~r.orphan /\ r.chain = "upload" THEN FALSE
                          ELSE uploading
          /\ IF applied /\ ~renders(r.bvideos)
             THEN /\ mounted' = FALSE
                  /\ hlsRef' = cleanup(hlsRef)
                  /\ hlsCall' = IF hlsRef # "null" THEN "destroy" ELSE hlsCall
                  /\ net' = Orphaned(rest)
                  /\ orphanTimers' = orphanTimers + timers
                  /\ timers' = 0
                  /\ UNCHANGED hlsLeaked
             ELSE /\ net' = rest
                  /\ RunEffect(applied /\ r.bcurrent # currentVideo)
                  /\ UNCHANGED <<mounted, timers, orphanTimers>>
          /\ Late(r.orphan, outcome = "json" \/ r.chain = "upload")
          /\ latestSent' = NoteLatest(r, "videos", res)
          /\ lastGood' = NoteGood(r, {"videos", "currentVideo"}, res)
    /\ UNCHANGED <<instance, browser, ident, status, clipping, clipMessage,
                   heartCount, dislikeCount, clips, streaming, e>>

----------------------------------------------------------------------------
\* Clip gallery

isArray(j) == j.t = "array"

fetchClips_resume(i, outcome, body) ==
    /\ i \in 1..Len(net["clips"])
    /\ Take("clips", i)
    /\ alertText' = ""
    /\ LET r == net["clips"][i]
           res == IF outcome = "ok" THEN List(body, "") ELSE Failed
       IN /\ IF outcome = "ok" /\ ~r.orphan
             THEN clips' = IF isArray(body) THEN body ELSE JArray(<<>>)
             ELSE UNCHANGED clips
          /\ Late(r.orphan, outcome = "ok")
          /\ latestSent' = NoteLatest(r, "clips", res)
          /\ lastGood' = NoteGood(r, {"clips"}, res)
    /\ UNCHANGED <<mounted, instance, browser, ident, status, clipping,
                   clipMessage, videos, currentVideo, uploading, heartCount,
                   dislikeCount, player, timers, orphanTimers, streaming, e>>

----------------------------------------------------------------------------
\* Reactions

\* only an attachment is a download
maybeDownloadFile_attachmentOnly(isAttachment, ctype) == isAttachment

maybeDownloadFile(isAttachment, ctype) ==
    isAttachment \/ ctype \in {"application/octet-stream", "video/mp4"}

\* unique_in_window without the default
uniqueOrZero_noDefault(has, n) == n

\* unique_in_window ?? 0
uniqueOrZero(has, n) == IF has THEN n ELSE 0

\* handleHeart, handleDislike up to the await of fetch
react(rtype) ==
    /\ mounted
    /\ CanSend(rtype)
    /\ Send(rtype, [Request EXCEPT !.user = userId])
    /\ latestSent' = NoteSent(latestSent, rtype, FALSE)
    /\ alertText' = ""
    /\ UNCHANGED <<mounted, instance, browser, ident, view, player, timers,
                   orphanTimers, streaming, e, lateSetters, lastGood>>

handleHeart == react("heart")
handleDislike == react("dislike")

\* the outcome of the awaits of a reaction
reactOutcome(transport, isAttachment, ctype) ==
    IF transport # "ok" THEN transport
    ELSE IF maybeDownloadFile(isAttachment, ctype) THEN "download" ELSE "json"

\* fetchClips() after every reaction that was counted
refetchClips_always(outcome, stored) == outcome = "json"

\* if (data.stored) fetchClips()
refetchClips(outcome, stored) == outcome = "json" /\ stored

\* what handleHeart and handleDislike share after the await
react_resume(i, rtype, outcome, has, n, stored) ==
    /\ i \in 1..Len(net[rtype])
    /\ alertText' = ""
    /\ LET r == net[rtype][i]
           res == IF outcome = "json" THEN Count(has, n) ELSE Failed
           refetch == refetchClips(outcome, stored)
       IN /\ IF refetch
             THEN /\ CanSend("clips")
                  /\ TakeAndSend(rtype, i, "clips", [Request EXCEPT !.orphan = r.orphan])
             ELSE Take(rtype, i)
          /\ Late(r.orphan, outcome = "json")
          /\ latestSent' = IF refetch
                           THEN NoteSent(NoteLatest(r, rtype, res), "clips", r.orphan)
                           ELSE NoteLatest(r, rtype, res)
          /\ lastGood' = NoteGood(r, {rtype}, res)

handleHeart_resume(i, outcome, has, n, stored) ==
    /\ react_resume(i, "heart", outcome, has, n, stored)
    /\ heartCount' = IF outcome = "json" /\ ~net["heart"][i].orphan
                     THEN uniqueOrZero(has, n) ELSE heartCount
    /\ UNCHANGED <<mounted, instance, browser, ident, status, clipping,
                   clipMessage, videos, currentVideo, uploading, dislikeCount,
                   clips, player, timers, orphanTimers, streaming, e>>

handleDislike_resume(i, outcome, has, n, stored) ==
    /\ react_resume(i, "dislike", outcome, has, n, stored)
    /\ dislikeCount' = IF outcome = "json" /\ ~net["dislike"][i].orphan
                       THEN uniqueOrZero(has, n) ELSE dislikeCount
    /\ UNCHANGED <<mounted, instance, browser, ident, status, clipping,
                   clipMessage, videos, currentVideo, uploading, heartCount,
                   clips, player, timers, orphanTimers, streaming, e>>

----------------------------------------------------------------------------
\* Upload

handleUpload(hasFile) ==
    /\ mounted
    /\ ~uploading                      \* <input disabled={uploading}>
    /\ alertText' = ""
    /\ IF hasFile
       THEN /\ CanSend("upload")
            /\ uploading' = TRUE
            /\ Send("upload", Request)
       ELSE UNCHANGED <<uploading, net>>
    /\ UNCHANGED <<mounted, instance, browser, ident, status, clipping,
                   clipMessage, videos, currentVideo, heartCount, dislikeCount,
                   clips, player, timers, orphanTimers, streaming, e,
                   lateSetters, ghost>>

\* no alert on a failed upload
uploadAlert_silent(outcome) == ""

\* alert("Upload failed") in the else branch, alert("Upload error") in catch
uploadAlert(outcome) == IF outcome = "nonok" THEN "Upload failed" ELSE "Upload error"

\* the flag when fetchVideos() is not awaited: finally runs at once
uploadingAfterResponse_noAwait(outcome, flag) == FALSE

\* the flag after the response: finally runs once the try block has finished
uploadingAfterResponse(outcome, flag) == IF outcome = "ok" THEN flag ELSE FALSE

\* fetchVideos() after every response to /upload
refetchVideos_anyResponse(outcome) == outcome # "rejected"

\* if (response.ok) await fetchVideos()
refetchVideos(outcome) == outcome = "ok"

\* handleUpload after the await of fetch; on OK it awaits fetchVideos()
handleUpload_resume(i, outcome) ==
    /\ i \in 1..Len(net["upload"])
    /\ outcome \in {"ok", "nonok", "rejected"}
    /\ LET r == net["upload"][i]
       IN /\ IF refetchVideos(outcome)
             THEN /\ CanSend("videos")
                  /\ TakeAndSend("upload", i, "videos",
                        [Request EXCEPT !.chain = "upload", !.orphan = r.orphan])
                  /\ alertText' = ""
                  /\ latestSent' = NoteSent(latestSent, "videos", r.orphan)
             ELSE /\ Take("upload", i)
                  /\ alertText' = uploadAlert(outcome)
                  /\ UNCHANGED latestSent
          /\ uploading' = IF r.orphan THEN uploading
                          ELSE uploadingAfterResponse(outcome, uploading)
          /\ Late(r.orphan, outcome # "ok")
    /\ UNCHANGED <<mounted, instance, browser, ident, status, clipping,
                   clipMessage, videos, currentVideo, heartCount, dislikeCount,
                   clips, player, timers, orphanTimers, streaming, e, lastGood>>

----------------------------------------------------------------------------
\* Stream switch

\* the values of the rendered <option>s
Options == IF isArray(videos) THEN {videos.v[k] : k \in 1..Len(videos.v)} ELSE {}

\* a handler without the early return
sendsRequest_always(filename) == TRUE

\* if (!filename) return
sendsRequest(filename) == filename # ""

handleVideoSelect(filename) ==
    /\ mounted
    /\ filename \in Options
    /\ filename # currentVideo         \* onChange: the selection changed
    /\ alertText' = ""
    /\ IF ~sendsRequest(filename)
       THEN UNCHANGED <<status, net>>
       ELSE /\ CanSend("start_stream")
            /\ status' = "Switching stream..."
            /\ Send("start_stream", [Request EXCEPT !.file = filename])
    /\ UNCHANGED <<mounted, instance, browser, ident, clipping, clipMessage,
                   videos, currentVideo, uploading, heartCount, dislikeCount,
                   clips, player, timers, orphanTimers, streaming, e,
                   lateSetters, ghost>>

\* the backend handles POST /start_stream
start_stream_serve(i, accept) ==
    /\ i \in 1..Len(net["start_stream"])
    /\ net["start_stream"][i].phase = "sent"
    /\ net' = [net EXCEPT !["start_stream"][i].phase = "served",
                          !["start_stream"][i].ok = accept]
    /\ streaming' = IF accept THEN net["start_stream"][i].file ELSE streaming
    /\ alertText' = ""
    /\ UNCHANGED <<mounted, instance, browser, ident, view, player, timers,
                   orphanTimers, e, lateSetters, ghost>>

\* setCurrentVideo(filename) without the test of response.ok
switchedVideo_unchecked(outcome, file, current) ==
    IF outcome # "rejected" THEN file ELSE current

\* if (response.ok) setCurrentVideo(filename)
switchedVideo(outcome, file, current) ==
    IF outcome = "ok" THEN file ELSE current

\* handleVideoSelect after the await of fetch
handleVideoSelect_resume(i, outcome) ==
    /\ i \in 1..Len(net["start_stream"])
    /\ outcome \in {"ok", "nonok", "rejected"}
    /\ Take("start_stream", i)
    /\ alertText' = ""
    /\ LET r == net["start_stream"][i]
       IN /\ outcome = "ok" => r.phase = "served" /\ r.ok
          /\ outcome = "nonok" => r.phase = "served" /\ ~r.ok
          /\ IF r.orphan
             THEN UNCHANGED <<status, currentVideo, player>>
             ELSE /\ status' = IF outcome = "rejected"
                               THEN "Failed to switch stream" ELSE status
                  /\ currentVideo' = switchedVideo(outcome, r.file, currentVideo)
                  /\ RunEffect(currentVideo' # currentVideo)
          /\ Late(r.orphan, outcome # "nonok")
          /\ lastGood' = NoteGood(r, {"currentVideo"},
                            IF outcome = "ok" THEN List(JUndef, r.file) ELSE Failed)
    /\ UNCHANGED <<mounted, instance, browser, ident, clipping, clipMessage,
                   videos, uploading, heartCount, dislikeCount, clips, timers,
                   orphanTimers, streaming, e, latestSent>>

----------------------------------------------------------------------------
\* Events of the HLS player in hlsRef

\* Hls.Events.MANIFEST_PARSED
manifestParsed ==
    /\ mounted
    /\ hlsRef = "loading"
    /\ hlsRef' = "ready"
    /\ status' = "Stream ready"
    /\ alertText' = ""
    /\ UNCHANGED <<mounted, instance, browser, ident, clipping, clipMessage,
                   videos, currentVideo, uploading, heartCount, dislikeCount,
                   clips, hlsLeaked, hlsCall, net, timers, orphanTimers,
                   streaming, e, lateSetters, ghost>>

\* every fatal error destroys the player
recovery_destroyAlways(type) == "destroy"

\* switch (data.type): the call made on the player after a fatal error
recovery(type) ==
    IF type = "networkError" THEN "startLoad"
    ELSE IF type = "mediaError" THEN "recoverMediaError"
    ELSE "destroy"

\* Hls.Events.ERROR
hlsError(fatal, type) ==
    /\ mounted
    /\ Alive(hlsRef)
    /\ alertText' = ""
    /\ IF ~fatal THEN UNCHANGED <<status, hlsRef, hlsCall>>
       ELSE /\ hlsCall' = recovery(type)
            /\ hlsRef' = IF recovery(type) = "destroy" THEN destroy(hlsRef)
                          ELSE hlsRef
            /\ status' = IF recovery(type) = "startLoad"
                          THEN "Network error, retrying..."
                          ELSE IF recovery(type) = "recoverMediaError"
                          THEN "Media error, recovering..."
                          ELSE status
    /\ UNCHANGED <<mounted, instance, browser, ident, clipping, clipMessage,
                   videos, currentVideo, uploading, heartCount, dislikeCount,
                   clips, hlsLeaked, net, timers, orphanTimers, streaming, e,
                   lateSetters, ghost>>

----------------------------------------------------------------------------
\* The steps of the component and of its environment

Modifiers == BOOLEAN \X BOOLEAN \X BOOLEAN
Indexes == 1..(MaxInFlight + 1)
Transports == {"ok", "nonok", "rejected"}
Failures == {"nonok", "rejected"}
ContentTypes == {"application/json", "application/octet-stream", "video/mp4"}
ClipBodies == ClipLists \cup {JUndef}
\* the responses to /react: <<transport, Content-Disposition is attachment,
\* Content-Type, body has unique_in_window, unique_in_window, stored>>; the
\* fields that the outcome does not read are fixed
ReactResponses ==
    {<<tr, FALSE, "application/json", FALSE, 1, FALSE>> : tr \in Failures}
    \cup {<<"ok", TRUE, "application/json", FALSE, 1, FALSE>>}
    \cup {<<"ok", FALSE, c, FALSE, 1, FALSE>> :
             c \in ContentTypes \ {"application/json"}}
    \cup {<<"ok", FALSE, "application/json", hn[1], hn[2], stored>> :
             hn \in {<<FALSE, 1>>, <<TRUE, 1>>, <<TRUE, 2>>}, stored \in BOOLEAN}
ErrorTypes == {"networkError", "mediaError", "otherError"}

Click ==
    \E m \in Modifiers, c \in ClickInputs :
        handleVideoClick(m[1], m[2], m[3], c[1], c[2], c[3], c[4])
ClipResponse == \E i \in Indexes, o \in Transports : createClip_resume(i, o)
Remount == \E g \in UserIds, r \in UserIds : Mount(g, r)
VideosServed ==
    \E i \in Indexes, l \in VideoLists \cup {JUndef} :
        fetchVideos_serve(i, l, l # JUndef)
\* a video list with an empty identifier
VideosServedBlank ==
    \E i \in Indexes : fetchVideos_serve(i, JArray(<<"", "b.mp4">>), TRUE)
VideosResponse ==
    \E i \in Indexes, o \in {"json", "rejected"} : fetchVideos_resume(i, o)
ClipsResponse ==
    \E i \in Indexes :
        \/ \E b \in ClipBodies : fetchClips_resume(i, "ok", b)
        \/ \E o \in Failures : fetchClips_resume(i, o, JUndef)
HeartResponse ==
    \E i \in Indexes, r \in ReactResponses :
        handleHeart_resume(i, reactOutcome(r[1], r[2], r[3]), r[4], r[5], r[6])
DislikeResponse ==
    \E i \in Indexes, r \in ReactResponses :
        handleDislike_resume(i, reactOutcome(r[1], r[2], r[3]), r[4], r[5], r[6])
Upload == \E f \in BOOLEAN : handleUpload(f)
UploadResponse == \E i \in Indexes, o \in Transports : handleUpload_resume(i, o)
Select == \E f \in Filenames \cup {""} : handleVideoSelect(f)
StreamServed == \E i \in Indexes, a \in BOOLEAN : start_stream_serve(i, a)
SelectResponse == \E i \in Indexes, o \in Transports : handleVideoSelect_resume(i, o)
PlayerError == \E f \in BOOLEAN, t \in ErrorTypes : hlsError(f, t)

Next ==
    \/ Click
    \/ ClipResponse
    \/ clipTimer
    \/ clipTimerUnmounted
    \/ Unmount
    \/ Remount
    \/ VideosServed
    \/ VideosResponse
    \/ ClipsResponse
    \/ handleHeart
    \/ handleDislike
    \/ HeartResponse
    \/ DislikeResponse
    \/ Upload
    \/ UploadResponse
    \/ Select
    \/ StreamServed
    \/ SelectResponse
    \/ manifestParsed
    \/ PlayerError

Spec == Init /\ [][Next]_vars

\* Clips only: modifier-clicks, /clip responses and the timers
NextClip == Click \/ ClipResponse \/ clipTimer
SpecClip == Init /\ [][NextClip]_vars

\* one browser: localStorage works, Hls is supported
InitOne == InitEnv({TRUE}, {TRUE}, {"u1"})

\* the viewer reacts one way at a time: no reaction of the other kind is pending
HeartAlone == InFlight("dislike") = {} /\ handleHeart
DislikeAlone == InFlight("heart") = {} /\ handleDislike

\* the backend lists both videos
VideosListed ==
    \E i \in Indexes : fetchVideos_serve(i, JArray(<<"a.mp4", "b.mp4">>), TRUE)

\* Reactions and the lists fetched at mount
NextReact ==
    \/ HeartAlone
    \/ DislikeAlone
    \/ HeartResponse
    \/ DislikeResponse
    \/ ClipsResponse
    \/ VideosServed
    \/ VideosResponse
SpecReact == InitOne /\ [][NextReact]_vars

\* Stream switches and video-list fetches (at mount and after an upload)
NextSwitch ==
    \/ Select
    \/ StreamServed
    \/ SelectResponse
    \/ VideosServed
    \/ VideosResponse
    \/ Upload
    \/ UploadResponse
SpecSwitch == InitOne /\ [][NextSwitch]_vars

\* Uploads; every fetch settles
NextUpload ==
    \/ Upload
    \/ UploadResponse
    \/ VideosServed
    \/ VideosResponse
SpecUpload ==
    /\ InitOne
    /\ [][NextUpload]_vars
    /\ WF_vars(UploadResponse)
    /\ WF_vars(VideosResponse)

\* a Ctrl+Alt-click on a live stream, 10 seconds in
CtrlAltClick == handleVideoClick(TRUE, TRUE, FALSE, FALSE, 0, 0, 10)

\* the requests fail
VideosFailed == \E i \in Indexes : fetchVideos_resume(i, "rejected")
ClipsFailed == \E i \in Indexes, o \in Failures : fetchClips_resume(i, o, JUndef)
HeartFailed ==
    \E i \in Indexes, o \in Failures : handleHeart_resume(i, o, FALSE, 1, FALSE)
DislikeFailed ==
    \E i \in Indexes, o \in Failures : handleDislike_resume(i, o, FALSE, 1, FALSE)

ClipFailed == \E i \in Indexes, o \in Failures : createClip_resume(i, o)
UploadFailed == \E i \in Indexes, o \in Failures : handleUpload_resume(i, o)
SelectFailed == \E i \in Indexes, o \in Failures : handleVideoSelect_resume(i, o)

\* the backend refuses the switch
StreamRefused == \E i \in Indexes : start_stream_serve(i, FALSE)

\* Every handler, with backend calls that fail (the video list may load)
NextFail ==
    \/ CtrlAltClick
    \/ ClipFailed
    \/ clipTimer
    \/ HeartAlone
    \/ DislikeAlone
    \/ HeartFailed
    \/ DislikeFailed
    \/ ClipsFailed
    \/ Upload
    \/ UploadFailed
    \/ Select
    \/ StreamRefused
    \/ SelectFailed
    \/ VideosListed
    \/ VideosResponse
SpecFail == InitOne /\ [][NextFail]_vars

\* Mounts in one browser, and the reactions that carry the identifier
NextIdent ==
    \/ Unmount
    \/ Remount
    \/ handleHeart
    \/ handleDislike
    \/ HeartFailed
    \/ DislikeFailed
    \/ VideosFailed
    \/ ClipsFailed
SpecIdent == InitEnv(BOOLEAN, {TRUE}, UserIds) /\ [][NextIdent]_vars

\* Unmount while clips, list fetches and timers are pending
NextUnmount ==
    \/ Unmount
    \/ Remount
    \/ CtrlAltClick
    \/ ClipResponse
    \/ clipTimer
    \/ clipTimerUnmounted
    \/ VideosServed
    \/ VideosResponse
    \/ manifestParsed
SpecUnmount == InitEnv({TRUE}, BOOLEAN, {"u1"}) /\ [][NextUnmount]_vars

\* Clips, stream switches and player events; every fetch settles, every
\* timer fires, and a player that is loading parses its manifest
NextLive ==
    \/ CtrlAltClick
    \/ ClipResponse
    \/ clipTimer
    \/ Select
    \/ StreamServed
    \/ SelectResponse
    \/ VideosServed
    \/ VideosResponse
    \/ manifestParsed
SpecLive ==
    /\ InitOne
    /\ [][NextLive]_vars
    /\ WF_vars(ClipResponse)
    /\ WF_vars(clipTimer)
    /\ WF_vars(SelectResponse)
    /\ WF_vars(VideosResponse)
    /\ WF_vars(manifestParsed)

\* Reactions one way at a time, and the clip gallery
NextGallery ==
    \/ HeartAlone
    \/ DislikeAlone
    \/ HeartResponse
    \/ DislikeResponse
    \/ ClipsResponse
SpecGallery == InitOne /\ [][NextGallery]_vars

\* The player: stream switches, the video list and player events, in a
\* browser where Hls is supported and in one where it is not
NextPlayer ==
    \/ Select
    \/ StreamServed
    \/ SelectResponse
    \/ VideosServed
    \/ VideosServedBlank
    \/ VideosResponse
    \/ ClipsFailed
    \/ manifestParsed
    \/ PlayerError
SpecPlayer == InitEnv({TRUE}, BOOLEAN, {"u1"}) /\ [][NextPlayer]_vars

\* the backend accepts every switch, and the response is OK
StreamAccepted == \E i \in Indexes : start_stream_serve(i, TRUE)
SelectAccepted == \E i \in Indexes : handleVideoSelect_resume(i, "ok")
\* a fatal error that is neither a network nor a media error
FatalError == hlsError(TRUE, "otherError")

\* The player instances over mounts, re-initialisations and fatal errors
NextInstances ==
    \/ Unmount
    \/ Remount
    \/ VideosListed
    \/ VideosResponse
    \/ Select
    \/ StreamAccepted
    \/ SelectAccepted
    \/ manifestParsed
    \/ FatalError
SpecInstances == InitEnv({TRUE}, BOOLEAN, {"u1"}) /\ [][NextInstances]_vars

----------------------------------------------------------------------------
\* Properties

Seconds(n) == n * VideoWidth
LastClip == net["clip"][Len(net["clip"])]

\* C1: every modifier-click with clicked time T (duration * clickX / width
\* for a finite duration, currentTime otherwise) sends a /clip request with
\* end_time = T and start_time = max(0, T - 30), so that
\* 0 <= start_time <= end_time, end_time - start_time <= 30, and the range
\* is exactly 30 seconds when T >= 30.
C1_ClipRange ==
    [][\A m \in Modifiers, c \in ClickInputs :
          (handleVideoClick(m[1], m[2], m[3], c[1], c[2], c[3], c[4])
           /\ m[2] /\ (m[1] \/ m[3]))
          => LET T == IF c[1] THEN c[2] * c[3] ELSE Seconds(c[4])
                 r == LastClip'
             IN /\ Len(net'["clip"]) = Len(net["clip"]) + 1
                /\ r.en = T
                /\ r.st = (IF T >= Seconds(30) THEN T - Seconds(30) ELSE 0)
                /\ 0 <= r.st /\ r.st <= r.en
                /\ r.en - r.st <= Seconds(30)
                /\ (T >= Seconds(30) => r.en - r.st = Seconds(30))]_vars

\* a /clip request in flight whose range was clamped at 0, after one that
\* covers 30 full seconds
C1_Witness ==
    /\ Len(net["clip"]) = 2
    /\ net["clip"][1].st > 0
    /\ net["clip"][1].en - net["clip"][1].st = Seconds(30)
    /\ net["clip"][2].st = 0
    /\ net["clip"][2].en \in 1..(Seconds(30) - 1)

\* C2: a click starts a clip only when Alt is held together with Ctrl or
\* Meta; a click with any other combination of modifier keys sends no request
\* and leaves the view state unchanged.
C2_ModifierOnly ==
    [][/\ \A m \in Modifiers, c \in ClickInputs :
             (handleVideoClick(m[1], m[2], m[3], c[1], c[2], c[3], c[4])
              /\ ~(m[2] /\ (m[1] \/ m[3])))
             => UNCHANGED <<net, view>> /\ ~e'.prevented
       /\ Len(net'["clip"]) > Len(net["clip"])
             => e'.alt /\ (e'.ctrl \/ e'.meta) /\ e'.prevented]_vars

\* the last click held Ctrl and Meta but not Alt, and no clip was started
C2_Witness ==
    /\ e.ctrl /\ e.meta /\ ~e.alt /\ ~e.prevented
    /\ net["clip"] = <<>>
    /\ ~clipping

\* C7: the clip-in-progress flag is true and the clip message is non-empty
\* in every state in which a /clip request is in flight.
C7_ClippingWhileInFlight ==
    (mounted /\ InFlight("clip") # {})
        => (clipping /\ clipMessage.text # "")

Quiet(ks) == \A k \in ks : InFlight(k) = {}
CountOf(res) == IF res.has THEN res.n ELSE 0

\* C4 as stated: once every request has completed, the counters and the
\* lists are those returned for the most recently sent request of their kind.
C4_LatestSent ==
    (mounted /\ Quiet({"heart", "dislike", "videos", "clips"}))
    => /\ latestSent["heart"].st = "applied"
            => heartCount = CountOf(latestSent["heart"])
       /\ latestSent["dislike"].st = "applied"
            => dislikeCount = CountOf(latestSent["dislike"])
       /\ latestSent["videos"].st = "applied"
            => videos = latestSent["videos"].list
       /\ (latestSent["clips"].st = "applied" /\ latestSent["clips"].list.t = "array")
            => clips = latestSent["clips"].list

\* C4 as amended: the counters and the lists are those of the most recently
\* received response that was applied (OK and not a download for /react, a
\* JSON body for /videos, OK for /clips), or their initial values.
C4_LatestReceived ==
    mounted
    => /\ heartCount = (IF lastGood["heart"].st = "applied"
                        THEN CountOf(lastGood["heart"]) ELSE 0)
       /\ dislikeCount = (IF lastGood["dislike"].st = "applied"
                          THEN CountOf(lastGood["dislike"]) ELSE 0)
       /\ videos = (IF lastGood["videos"].st = "applied"
                    THEN lastGood["videos"].list ELSE JArray(<<>>))
       /\ clips = (IF lastGood["clips"].st = "applied"
                      /\ lastGood["clips"].list.t = "array"
                   THEN lastGood["clips"].list ELSE JArray(<<>>))

\* two heart responses arrived in the reverse order of their requests: the
\* counter shows the count of the request sent first
C4_Witness ==
    /\ mounted
    /\ Quiet({"heart", "dislike", "videos", "clips"})
    /\ latestSent["heart"].st = "applied"
    /\ lastGood["heart"].st = "applied"
    /\ CountOf(lastGood["heart"]) # CountOf(latestSent["heart"])
    /\ heartCount = CountOf(lastGood["heart"])

\* C5 as stated: once every /start_stream and /videos request has completed,
\* currentVideo is the video the backend is streaming.
C5_CurrentIsStreaming ==
    (mounted /\ Quiet({"start_stream", "videos"})) => currentVideo = streaming

\* C5 as amended: currentVideo is the identifier carried by the most recently
\* received response that sets it (the filename of an OK /start_stream
\* response, the current field of a /videos body), or "" when there is none.
C5_LatestReceived ==
    mounted
    => currentVideo = (IF lastGood["currentVideo"].st = "applied"
                       THEN lastGood["currentVideo"].cur ELSE "")

\* all requests have completed and the selected video is a video other than
\* the one being streamed
C5_Witness ==
    /\ mounted
    /\ Quiet({"start_stream", "videos"})
    /\ lastGood["currentVideo"].st = "applied"
    /\ currentVideo \in Filenames
    /\ currentVideo # streaming

\* the /upload requests, and the /videos requests handleUpload awaits
Uploads ==
    Cardinality(InFlight("upload"))
    + Cardinality({i \in InFlight("videos") : net["videos"][i].chain = "upload"})

\* C6: in the mounted component the upload-in-progress flag is true exactly
\* while an upload started by handleUpload has not finished, at most one
\* upload is in flight, and the flag returns to false whatever the outcome.
C6_UploadFlag ==
    /\ [](mounted => (uploading <=> Uploads > 0))
    /\ [](Uploads <= 1)
    /\ ((mounted /\ uploading) ~> (~mounted \/ ~uploading))

\* the upload was accepted and handleUpload awaits the video list
C6_Witness ==
    /\ uploading
    /\ InFlight("upload") = {}
    /\ \E i \in InFlight("videos") : net["videos"][i].chain = "upload"

\* C8: when localStorage works the identifier of a mount is the stored one
\* (a mount that finds one keeps it, a mount that finds none stores the one
\* it generates), so two successive mounts use the same identifier; within a
\* mount it never changes, and every /react request carries it as user_id.
C8_Identifier ==
    /\ []((mounted /\ storageWorks)
            => /\ userId # ""
               /\ localStorage = userId
               /\ (prevUserId # "" => userId = prevUserId))
    /\ [](\A k \in {"heart", "dislike"} :
            \A i \in InFlight(k) : net[k][i].user = userId)
    /\ [][(mounted /\ mounted') => userId' = userId]_vars
    /\ [][(~mounted /\ mounted' /\ storageWorks /\ localStorage # "")
            => (userId' = localStorage /\ localStorage' = localStorage)]_vars

\* the second mount uses the identifier the first one stored, and a
\* reaction of the second mount is in flight
C8_Witness ==
    /\ mounted /\ instance = 2 /\ storageWorks
    /\ prevUserId # "" /\ userId = prevUserId
    /\ InFlight("heart") # {}

\* C9 as stated: after the component has unmounted no pending response
\* continuation and no pending clip timer calls a state setter.
C9_NoSetterAfterUnmount == ~lateSetters

\* C9 as amended: the unmount destroys the HLS player and nothing else; it
\* cancels no request in flight and no pending clip timer (their
\* continuations run later and call setters of the unmounted component),
\* and the view state of the unmounted component no longer changes.
C9_UnmountDestroysPlayerOnly ==
    /\ [](~mounted => (~Alive(hlsRef) /\ hlsLeaked = 0))
    /\ [][Unmount
            => /\ \A k \in Kinds : Len(net'[k]) = Len(net[k])
               /\ orphanTimers' = orphanTimers + timers]_vars
    /\ [][(~mounted /\ ~mounted') => UNCHANGED view]_vars

\* unmounted with the player destroyed, after a continuation or a timer of
\* the unmounted component has called a setter, and with one more pending
C9_Witness ==
    /\ ~mounted
    /\ hlsRef = "destroyed"
    /\ lateSetters
    /\ orphanTimers > 0

\* C10: once a clip attempt has finished and no further clip is started, the
\* timer clears the clip-in-progress flag and the clip message; and once a
\* /start_stream request has completed, with any outcome, the status leaves
\* "Switching stream...".
C10_Transient ==
    /\ (mounted /\ timers > 0 /\ InFlight("clip") = {})
         ~> \/ ~clipping /\ clipMessage = NoMessage
            \/ InFlight("clip") # {}
            \/ ~mounted
    /\ (mounted /\ status = "Switching stream..." /\ InFlight("start_stream") = {})
         ~> (status # "Switching stream..." \/ ~mounted)

ClipFailedText == "Failed to create clip. Please try again."
SwitchFailedText == "Failed to switch stream"
UploadFailedTexts == {"Upload failed", "Upload error"}

\* a backend call fails: a rejected request or a non-OK response
FailureStep ==
    \E i \in Indexes :
        \/ \E o \in Failures :
              \/ createClip_resume(i, o)
              \/ handleUpload_resume(i, o)
              \/ handleVideoSelect_resume(i, o)
              \/ handleHeart_resume(i, o, FALSE, 1, FALSE)
              \/ handleDislike_resume(i, o, FALSE, 1, FALSE)
              \/ fetchClips_resume(i, o, JUndef)
        \/ fetchVideos_resume(i, "rejected")

\* C3 as stated: every failure of a backend call is followed by a failure
\* text in the status, in the clip message or in an alert.
C3_AllFailuresSurfaced ==
    [][FailureStep => \/ status' = SwitchFailedText
                      \/ clipMessage'.text = ClipFailedText
                      \/ alertText' \in UploadFailedTexts]_vars

\* C3 as amended: a failed /upload raises an alert, a failed /clip sets the
\* clip message to the failure text, a rejected /start_stream request sets
\* the status to "Failed to switch stream"; a non-OK /start_stream response
\* and every failure of /videos, /react and /clips change neither the status
\* nor the clip message and raise no failure alert.
C3_SurfacedFailures ==
    [][\A i \in Indexes :
        /\ \A o \in Failures :
            /\ handleUpload_resume(i, o)
                 => alertText' = (IF o = "nonok" THEN "Upload failed"
                                  ELSE "Upload error")
            /\ (createClip_resume(i, o) /\ mounted)
                 => clipMessage'.text = ClipFailedText
            /\ (handleHeart_resume(i, o, FALSE, 1, FALSE)
                \/ handleDislike_resume(i, o, FALSE, 1, FALSE)
                \/ fetchClips_resume(i, o, JUndef))
                 => (UNCHANGED <<status, clipMessage>> /\ alertText' = "")
        /\ (handleVideoSelect_resume(i, "rejected") /\ mounted)
             => status' = SwitchFailedText
        /\ handleVideoSelect_resume(i, "nonok")
             => (UNCHANGED <<status, clipMessage>> /\ alertText' = "")
        /\ fetchVideos_resume(i, "rejected")
             => (UNCHANGED <<status, clipMessage>>
                 /\ alertText' \notin UploadFailedTexts)]_vars

\* an upload has just failed with a non-OK response and the viewer sees the
\* alert, while the status still shows a rejected stream switch
C3_Witness ==
    /\ alertText = "Upload failed"
    /\ ~uploading
    /\ status = SwitchFailedText

\* the player has just been created by initPlayer
Initialised == hlsRef = "loading" /\ hlsCall = "attachMedia"

LastSelect == net["start_stream"][Len(net["start_stream"])]

\* C12: a stream switch changes currentVideo, the videos list and the player
\* only on success: the selection itself sends the request and changes none
\* of them, a non-OK response or a rejected request leaves them unchanged,
\* an OK response (which the backend gives only to a request it accepted)
\* sets currentVideo to the requested filename, nothing but an OK response
\* or a /videos body changes currentVideo, and selecting the empty value
\* sends no request and changes nothing.
C12_SwitchOnlyOnSuccess ==
    [][/\ \A i \in Indexes :
            /\ \A o \in Failures :
                  handleVideoSelect_resume(i, o)
                  => UNCHANGED <<currentVideo, videos, player>>
            /\ (handleVideoSelect_resume(i, "ok") /\ ~net["start_stream"][i].orphan)
                  => /\ net["start_stream"][i].ok
                     /\ currentVideo' = net["start_stream"][i].file
                     /\ UNCHANGED videos
       /\ \A f \in Filenames :
            handleVideoSelect(f)
            => /\ UNCHANGED <<currentVideo, videos, player>>
               /\ Len(net'["start_stream"]) = Len(net["start_stream"]) + 1
               /\ LastSelect'.file = f
       /\ handleVideoSelect("") => UNCHANGED <<net, view, player>>
       /\ (mounted /\ mounted' /\ currentVideo' # currentVideo)
            => \/ \E i \in Indexes : handleVideoSelect_resume(i, "ok")
               \/ \E i \in Indexes : fetchVideos_resume(i, "json")]_vars

\* the list offers an empty value, and a switch away from a.mp4 has failed
\* with a rejected request: a.mp4 is still current and its player still
\* plays
C12_Witness ==
    /\ mounted
    /\ "" \in Options
    /\ status = "Failed to switch stream"
    /\ currentVideo = "a.mp4"
    /\ hlsRef = "ready"
    /\ hlsCall = "attachMedia"
    /\ net["start_stream"] = <<>>

\* C13: a fatal network error sets the status to "Network error,
\* retrying..." and calls startLoad on the player in hlsRef, a fatal media
\* error sets it to "Media error, recovering..." and calls
\* recoverMediaError on that player, any other fatal error destroys the
\* player and leaves the status; a non-fatal error changes neither the
\* status nor the player. After a restart the same player is still alive,
\* so the next error is handled in the same way, any number of times.
C13_ErrorRecovery ==
    [][/\ hlsError(TRUE, "networkError")
            => /\ status' = "Network error, retrying..."
               /\ hlsCall' = "startLoad"
               /\ hlsRef' = hlsRef /\ Alive(hlsRef')
               /\ UNCHANGED hlsLeaked
       /\ hlsError(TRUE, "mediaError")
            => /\ status' = "Media error, recovering..."
               /\ hlsCall' = "recoverMediaError"
               /\ hlsRef' = hlsRef /\ Alive(hlsRef')
               /\ UNCHANGED hlsLeaked
       /\ hlsError(TRUE, "otherError")
            => /\ hlsRef' = "destroyed"
               /\ hlsCall' = "destroy"
               /\ UNCHANGED <<status, hlsLeaked>>
       /\ \A t \in ErrorTypes :
            hlsError(FALSE, t) => UNCHANGED <<status, player>>
       /\ (status' # status /\ status' \in {"Network error, retrying...",
                                             "Media error, recovering..."})
            => \E t \in ErrorTypes : hlsError(TRUE, t)]_vars

\* the player created for b.mp4 has parsed its manifest and has since been
\* asked to recover from a fatal media error
C13_Witness ==
    /\ mounted
    /\ currentVideo = "b.mp4"
    /\ status = "Media error, recovering..."
    /\ hlsCall = "recoverMediaError"
    /\ hlsRef = "ready"

\* the /react response r is OK, is not a file download and has stored set
StoredClip(r) ==
    /\ r[1] = "ok"
    /\ ~r[2]
    /\ r[3] \notin {"application/octet-stream", "video/mp4"}
    /\ r[6]

\* C14: the continuation of a heart or a dislike sends one /clips request
\* when the /react response is OK, is not a file download and has stored
\* set, and none otherwise, and does not itself change the clips list; the
\* clips list changes only with an OK /clips response, which replaces it by
\* the clips of the body, and is unchanged on a non-OK response or a
\* rejected request.
C14_ClipsRefetch ==
    [][/\ \A i \in Indexes, r \in ReactResponses :
            (\/ handleHeart_resume(i, reactOutcome(r[1], r[2], r[3]),
                                   r[4], r[5], r[6])
             \/ handleDislike_resume(i, reactOutcome(r[1], r[2], r[3]),
                                     r[4], r[5], r[6]))
            => /\ Len(net'["clips"])
                    = Len(net["clips"]) + (IF StoredClip(r) THEN 1 ELSE 0)
               /\ UNCHANGED clips
       /\ \A i \in Indexes :
            /\ \A o \in Failures :
                  fetchClips_resume(i, o, JUndef) => UNCHANGED clips
            /\ \A b \in ClipLists :
                  (fetchClips_resume(i, "ok", b) /\ ~net["clips"][i].orphan)
                  => clips' = b
       /\ clips' # clips
            => \E i \in Indexes, b \in ClipBodies : fetchClips_resume(i, "ok", b)]_vars

\* the gallery shows a clip, a heart has been counted, and a /clips request
\* sent after a reaction is in flight while no reaction is
C14_Witness ==
    /\ mounted
    /\ clips = JArray(<<"clip1">>)
    /\ heartCount = 1
    /\ InFlight("heart") = {} /\ InFlight("dislike") = {}
    /\ dislikeCount = 0
    /\ InFlight("clips") # {}

\* the HLS player instances that have not been destroyed
Undestroyed == (IF Alive(hlsRef) THEN 1 ELSE 0) + hlsLeaked

\* C15: at most one HLS player instance that has not been destroyed exists,
\* it is the one held in hlsRef (initPlayer destroys the instance in hlsRef
\* before it creates the next one, so none is left behind), and after
\* unmount there is none.
C15_OnePlayer ==
    /\ Undestroyed <= 1
    /\ hlsLeaked = 0
    /\ ~mounted => Undestroyed = 0
    /\ ~hlsSupported => hlsRef = "null"

\* the second mount plays b.mp4 on a player created after the one of the
\* first mount and the one for a.mp4 were destroyed
C15_Witness ==
    /\ mounted
    /\ instance = 2
    /\ currentVideo = "b.mp4"
    /\ lastGood["currentVideo"] = List(JUndef, "b.mp4")
    /\ hlsRef = "ready"
    /\ Undestroyed = 1

UploadAlerts == {"Upload successful!", "Upload failed", "Upload error"}

\* C16: an OK /upload response sends the /videos request that handleUpload
\* awaits, shows no alert yet and leaves the upload-in-progress flag set;
\* "Upload successful!" is shown only in the step in which that /videos
\* request finishes, with a body or with a rejection; the flag is cleared
\* only in a step that shows one of the upload alerts; a non-OK response or
\* a rejected request sends no /videos request and leaves videos and
\* currentVideo unchanged.
C16_UploadRefetch ==
    [][/\ \A i \in Indexes :
            /\ handleUpload_resume(i, "ok")
                  => /\ Len(net'["videos"]) = Len(net["videos"]) + 1
                     /\ net'["videos"][Len(net'["videos"])].chain = "upload"
                     /\ net'["videos"][Len(net'["videos"])].phase = "sent"
                     /\ alertText' = ""
                     /\ UNCHANGED <<uploading, videos, currentVideo>>
            /\ \A o \in Failures :
                  handleUpload_resume(i, o)
                  => /\ net'["videos"] = net["videos"]
                     /\ alertText' \in UploadAlerts \ {"Upload successful!"}
                     /\ UNCHANGED <<videos, currentVideo>>
       /\ alertText' = "Upload successful!"
            => \E i \in Indexes, o \in {"json", "rejected"} :
                  /\ fetchVideos_resume(i, o)
                  /\ net["videos"][i].chain = "upload"
       /\ (uploading /\ ~uploading') => alertText' \in UploadAlerts]_vars

\* the upload has just succeeded: the list fetched after it is shown, the
\* alert is up, the flag is cleared and no /videos request is left
C16_Witness ==
    /\ mounted
    /\ alertText = "Upload successful!"
    /\ ~uploading
    /\ videos = JArray(<<"a.mp4", "b.mp4">>)
    /\ currentVideo = "a.mp4"
    /\ net["videos"] = <<>>
    /\ net["upload"] = <<>>

\* the /react response r is OK and is not a file download
Counted(r) ==
    /\ r[1] = "ok"
    /\ ~r[2]
    /\ r[3] \notin {"application/octet-stream", "video/mp4"}

\* unique_in_window of the response r, 0 when the body has no such field
UniqueInWindow(r) == IF r[4] THEN r[5] ELSE 0

\* C17: a heart never changes dislikeCount and a dislike never changes
\* heartCount, neither when it is sent nor when its response arrives, and
\* neither changes the clips list; when the /react response is a file
\* download, is non-OK, or the request is rejected, the counter of the
\* reaction is unchanged as well; otherwise it is set to unique_in_window of
\* the response, or to 0 when that field is absent.
C17_OwnCounterOnly ==
    [][/\ \A i \in Indexes, r \in ReactResponses :
            /\ handleHeart_resume(i, reactOutcome(r[1], r[2], r[3]),
                                  r[4], r[5], r[6])
                  => /\ UNCHANGED <<dislikeCount, clips>>
                     /\ heartCount' = IF Counted(r) THEN UniqueInWindow(r)
                                      ELSE heartCount
            /\ handleDislike_resume(i, reactOutcome(r[1], r[2], r[3]),
                                    r[4], r[5], r[6])
                  => /\ UNCHANGED <<heartCount, clips>>
                     /\ dislikeCount' = IF Counted(r) THEN UniqueInWindow(r)
                                        ELSE dislikeCount
       /\ (handleHeart \/ handleDislike)
            => UNCHANGED <<heartCount, dislikeCount, clips>>]_vars

\* the last counted heart had no unique_in_window and reset the heart
\* counter to 0, while the dislike counter shows 2
C17_Witness ==
    /\ mounted
    /\ heartCount = 0
    /\ lastGood["heart"] = Count(FALSE, 1)
    /\ dislikeCount = 2
    /\ InFlight("heart") = {} /\ InFlight("dislike") = {}

\* C18: in every reachable state the videos state and the clips state are
\* lists, whatever JSON body the backend returns for /videos and /clips.
C18_ListsAlways ==
    /\ videos.t = "array"
    /\ clips.t = "array"

====
